---- MODULE Spec2Model ----
(***************************************************************************)
(* Model of main() of src/main.py (UniTAB training / evaluation driver).   *)
(* One process runs main(args) from its first statement to its return or   *)
(* to the exception that ends it.  Every action is one block of main(), in *)
(* program order; pc names the block that runs next.                       *)
(*                                                                         *)
(* Collaborators that are not part of main.py (build_model, build_dataset, *)
(* evaluate, train_one_epoch, torch.load) are modelled by what main() can  *)
(* observe of them: the arguments they are called with and the objects     *)
(* they return.  Weights and optimizer states are opaque tags.             *)
(***************************************************************************)
EXTENDS Integers, Sequences, FiniteSets, TLC

(* ---------------------------------------------------------------------- *)
(* Bounds of the model                                                     *)
(* ---------------------------------------------------------------------- *)
MaxTrain == 2
MaxVal == 2
MaxEpochs == 2
MaxCkptEpoch == 1
MaxMetric == 1

(* ---------------------------------------------------------------------- *)
(* Python strings that the code inspects are sequences of characters, so   *)
(* that `"flickr" in dataset_name` is a real substring search.             *)
(* ---------------------------------------------------------------------- *)
S_flickr == <<"f","l","i","c","k","r">>
S_refexp == <<"r","e","f","e","x","p">>
S_gqa == <<"g","q","a">>
S_flickr_test == S_flickr \o <<"_","t","e","s","t">>
S_flickr_refexp == S_flickr \o <<"_">> \o S_refexp
S_multitask == <<"m","u","l","t","i","t","a","s","k">>
S_json == <<".","j","s","o","n">>

\* Python: sub in s
Contains(sub, s) ==
  \E i \in 1..(Len(s) - Len(sub) + 1) : SubSeq(s, i, i + Len(sub) - 1) = sub

\* All sequences over S of length 0..n
SeqsUpTo(S, n) == UNION { [1..k -> S] : k \in 0..n }

TrainNames == {S_flickr, S_refexp}
\* --dataset_config: the path of the dataset configuration document
DatasetConfigs == {S_multitask \o S_json, S_flickr \o S_json}
ValNames == {S_flickr_test, S_refexp, S_gqa, S_flickr_refexp}

(* ---------------------------------------------------------------------- *)
(* Override fields of args (GT_type, refexp_dataset_name, flickr_img_path, *)
(* coco_path) hold either a Python str or a Python list of str.            *)
(* ---------------------------------------------------------------------- *)
Str(s) == [kind |-> "str", s |-> s, items |-> <<>>]
List(q) == [kind |-> "list", s |-> "", items |-> q]
\* Python: type(v) == type([])
IsList(v) == v.kind = "list"
\* Python: v == "literal"   (a list never equals a str)
PyEq(v, lit) == v.kind = "str" /\ v.s = lit
\* Python: cache[ii] for a list cache (ii counts from 0)
Item(v, ii) == Str(v.items[ii + 1])

OverrideFields == {"GT_type", "refexp_dataset_name", "flickr_img_path", "coco_path"}

\* lines 359-360 and 389-390: the fixed joint value
Canonical ==
  [GT_type |-> "merged_karpathy",
   refexp_dataset_name |-> "refcocog",
   flickr_img_path |-> "data/Flickr30k/flickr30k_images_split/train",
   coco_path |-> "data/coco"]

\* Per-dataset settings a dataset configuration may carry
Descriptors ==
  { [GT_type |-> "merged", refexp_dataset_name |-> "refcoco",
     flickr_img_path |-> "data/Flickr30k/flickr30k_images_split/train",
     coco_path |-> "data/coco"],
    [GT_type |-> "separate", refexp_dataset_name |-> "refcoco+",
     flickr_img_path |-> "data/Flickr30k/flickr30k_images",
     coco_path |-> "data/coco2014"],
    [GT_type |-> "merged_karpathy", refexp_dataset_name |-> "refcocog",
     flickr_img_path |-> "data/Flickr30k/flickr30k_images_split/train",
     coco_path |-> "data/coco2014"] }

\* the four override fields of args as a record of str values
ScalarOverrides(d) == [f \in OverrideFields |-> Str(d[f])]
\* the four override fields as lists, position i taken from descriptor ds[i]
ListOverrides(ds) ==
  [f \in OverrideFields |-> List([i \in 1..Len(ds) |-> ds[i][f]])]


(* ---------------------------------------------------------------------- *)
(* Checkpoint files.  A file is the dict torch.load returns; only the      *)
(* presence of its optional keys and its epoch vary.  Weights and          *)
(* optimizer states are tags naming the file and the key they came from.   *)
(* ---------------------------------------------------------------------- *)
\* model_ema: the key is absent, holds None, or holds weights
EmaFields == {"absent", "none", "weights"}
Checkpoints ==
  { c \in [model_ema : EmaFields, has_optimizer : BOOLEAN,
           has_epoch : BOOLEAN, epoch : 0..MaxCkptEpoch] :
      ~c.has_epoch => c.epoch = 0 }
NoFile == [model_ema |-> "absent", has_optimizer |-> FALSE,
           has_epoch |-> FALSE, epoch |-> 0]

\* a model object: weights of its detr sub-module and of the rest
Weights(w) == [detr |-> w, rest |-> w]
\* Python None where a model is expected
None == Weights("None")
Unbuilt == Weights("unbuilt")

(* ---------------------------------------------------------------------- *)
(* The command line.  Base is one plain single-process training run; each  *)
(* family below varies the arguments one part of main() reads.             *)
(* ---------------------------------------------------------------------- *)
Base ==
  [eval |-> FALSE, distributed |-> FALSE, from_deepspeed |-> FALSE,
   use_colo_zero |-> FALSE, ema |-> FALSE,
   do_caption |-> FALSE, no_detection |-> FALSE, optimizer |-> "adam",
   dataset_config |-> S_flickr \o S_json,
   combine_datasets |-> <<S_flickr>>, combine_datasets_val |-> <<S_flickr_test>>,
   GT_type |-> Str("merged"), refexp_dataset_name |-> Str("refcoco"),
   flickr_img_path |-> Str("data/Flickr30k/flickr30k_images_split/train"),
   coco_path |-> Str("data/coco"),
   frozen_weights |-> FALSE, load |-> FALSE, resume |-> FALSE,
   start_epoch |-> 0, epochs |-> MaxEpochs, eval_skip |-> 1,
   output_dir |-> FALSE, lr_drop |-> 35]

WithOverrides(a, o) ==
  [a EXCEPT !.GT_type = o.GT_type,
            !.refexp_dataset_name = o.refexp_dataset_name,
            !.flickr_img_path = o.flickr_img_path,
            !.coco_path = o.coco_path]

\* scalar overrides, or override lists with one element per training dataset
OverridesFor(k) ==
  { ScalarOverrides(d) : d \in Descriptors } \cup
  { ListOverrides(ds) : ds \in [1..k -> Descriptors] }

TrainArgs ==
  { WithOverrides([Base EXCEPT !.eval = ev, !.combine_datasets = tr,
                               !.combine_datasets_val = va,
                               !.dataset_config = dc], o) :
      ev \in BOOLEAN, tr \in SeqsUpTo(TrainNames, MaxTrain),
      dc \in DatasetConfigs,
      va \in {<<>>, <<S_flickr_test>>},
      o \in UNION { OverridesFor(k) : k \in 0..MaxTrain } }

ValArgs ==
  { WithOverrides([Base EXCEPT !.eval = ev, !.ema = em, !.do_caption = dc,
                               !.no_detection = nd,
                               !.combine_datasets_val = va,
                               !.dataset_config = cf], o) :
      ev \in BOOLEAN, em \in BOOLEAN, dc \in BOOLEAN, nd \in BOOLEAN,
      cf \in DatasetConfigs,
      va \in SeqsUpTo(ValNames, MaxVal), o \in OverridesFor(1) }

LoadArgs ==
  { [Base EXCEPT !.eval = ev, !.ema = em, !.frozen_weights = fw, !.load = ld,
                 !.resume = rs, !.start_epoch = se, !.epochs = ep] :
      ev \in BOOLEAN, em \in BOOLEAN, fw \in BOOLEAN, ld \in BOOLEAN,
      rs \in BOOLEAN, se \in 0..1, ep \in 0..MaxEpochs }

LoopArgs ==
  { [Base EXCEPT !.distributed = di, !.from_deepspeed = ds, !.ema = em,
                 !.resume = rs, !.start_epoch = se, !.epochs = ep,
                 !.eval_skip = sk, !.output_dir = od, !.lr_drop = ld,
                 !.no_detection = nd] :
      di \in BOOLEAN, ds \in BOOLEAN, em \in BOOLEAN, rs \in BOOLEAN,
      se \in 0..1, ep \in 0..MaxEpochs, sk \in 1..2,
      od \in BOOLEAN, ld \in {1, 35}, nd \in BOOLEAN }

SetupArgs ==
  { [Base EXCEPT !.eval = ev, !.use_colo_zero = cz, !.optimizer = op,
                 !.combine_datasets = tr, !.combine_datasets_val = va] :
      ev \in BOOLEAN, cz \in BOOLEAN, op \in {"sgd", "adam", "adamw", "lamb"},
      tr \in {<<>>, <<S_flickr>>}, va \in {<<>>, <<S_flickr_test>>} }

ArgsSpace == TrainArgs \cup ValArgs \cup LoadArgs \cup LoopArgs \cup SetupArgs

\* the files named by --resume and --load ("" names no file)
FilesFor(a) ==
  [resume : IF a.resume THEN Checkpoints ELSE {NoFile},
   load : IF a.load THEN Checkpoints ELSE {NoFile}]

\* mutant of MultitaskMode: every configuration is taken for a multi-task one
MultitaskMode_Always(a) == TRUE

\* lines 346 / 387: type(args.refexp_dataset_name)==type([])
MultitaskMode(a) == IsList(a.refexp_dataset_name)

\* the cache locals before line 347 assigns them
NoCaches == [f \in OverrideFields |-> List(<<>>)]
\* lines 347-348: the caches are the values args holds on entry
CachesOf(a) == [f \in OverrideFields |-> a[f]]

VARIABLES
  pc,             \* the block of main() that runs next
  error,          \* the exception that ended main(), "" if none
  argv,           \* the arguments as parsed, before main() touches them
  args,           \* the argparse namespace, mutated in place by main()
  files,          \* contents of the --resume and --load checkpoint files
  model,          \* model_without_ddp
  model_ema,      \* the EMA shadow, None when there is none
  optimizer,      \* optimizer state
  caches,         \* gttype_cache, refexpname_cache, flickr_img_path_cache,
                  \* coco_path_cache (lines 347-348)
  ii,             \* loop index of the multi-task training-dataset loop
  build_calls,    \* every build_dataset call, with the args it saw
  dataset_train,  \* names concatenated into dataset_train
  val_tuples,     \* dataset names of val_tuples, in order
  bound,          \* the late locals of main() that have been assigned
  epoch,          \* loop variable of the epoch loop
  best_metric,    \* local of main(), meaningful once in bound
  train_calls,    \* epochs train_one_epoch was called for, in order
  evaluations,    \* every evaluate call: dataset, model, evaluators
  written         \* files written: checkpoints and log records

vars == <<pc, error, argv, args, files, model, model_ema, optimizer, caches, ii, build_calls,
          dataset_train, val_tuples, bound, epoch, best_metric, train_calls,
          evaluations, written>>

Init ==
  /\ argv \in ArgsSpace
  /\ args = argv
  /\ files \in FilesFor(args)
  /\ pc = "build_model"
  /\ error = ""
  /\ model = Unbuilt
  /\ model_ema = None
  /\ optimizer = "unbuilt"
  /\ caches = NoCaches
  /\ ii = 0
  /\ build_calls = <<>>
  /\ dataset_train = <<>>
  /\ val_tuples = <<>>
  /\ bound = {}
  /\ epoch = 0
  /\ best_metric = 0
  /\ train_calls = <<>>
  /\ evaluations = <<>>
  /\ written = <<>>

(* ---------------------------------------------------------------------- *)
(* Helpers                                                                 *)
(* ---------------------------------------------------------------------- *)
\* an uncaught exception ends main()
Raise(e) == pc' = "raised" /\ error' = e
Goto(l) == pc' = l /\ error' = error

\* what build_dataset(name, image_set, args=args) can read of args
BuildCall(name, image_set, a) ==
  [name |-> name, image_set |-> image_set, GT_type |-> a.GT_type,
   refexp_dataset_name |-> a.refexp_dataset_name,
   flickr_img_path |-> a.flickr_img_path, coco_path |-> a.coco_path]

\* mutant of SetCanonical: the reset after the loop is forgotten
SetCanonical_Forgotten(a) == a

\* mutant of SetCanonical: the statement that resets the two paths is missing
SetCanonical_NamesOnly(a) ==
  [a EXCEPT !.GT_type = Str(Canonical.GT_type),
            !.refexp_dataset_name = Str(Canonical.refexp_dataset_name)]

\* lines 359-360 / 389-390
SetCanonical(a) == WithOverrides(a, ScalarOverrides(Canonical))

\* mutant of SetPosition: the two path caches are indexed by the wrong position
SetPosition_StalePaths(a, c, i) ==
  [a EXCEPT !.GT_type = Item(c.GT_type, i),
            !.refexp_dataset_name = Item(c.refexp_dataset_name, i),
            !.flickr_img_path = Item(c.flickr_img_path, 0),
            !.coco_path = Item(c.coco_path, 0)]

\* lines 351-355: the per-dataset values written into args at position i
SetPosition(a, c, i) ==
  [a EXCEPT !.GT_type = Item(c.GT_type, i),
            !.refexp_dataset_name = Item(c.refexp_dataset_name, i),
            !.flickr_img_path = Item(c.flickr_img_path, i),
            !.coco_path = Item(c.coco_path, i)]

(* ---------------------------------------------------------------------- *)
(* lines 273-304: build the model and the EMA copy                         *)
(* ---------------------------------------------------------------------- *)
\* mutant of EmaCopy: the shadow is made whether or not EMA is enabled
EmaCopy_Always(a, m) == m

\* line 294: model_ema = deepcopy(model) if args.ema else None
EmaCopy(a, m) == IF a.ema THEN m ELSE None

BuildModel ==
  /\ pc = "build_model"
  /\ model' = Weights("init")
  /\ model_ema' = EmaCopy(args, model')
  /\ Goto("build_optimizer")
  /\ UNCHANGED <<argv, args, files, optimizer, caches, ii, build_calls, dataset_train,
                 val_tuples, bound, epoch, best_metric, train_calls,
                 evaluations, written>>

(* lines 307-337: parameter groups and optimizer *)
BuildOptimizer ==
  /\ pc = "build_optimizer"
  /\ IF args.use_colo_zero
       THEN IF args.optimizer = "adam"
              THEN optimizer' = "fresh" /\ Goto("check_train")
              ELSE optimizer' = optimizer /\ Raise("AssertionError: use_colo_zero")
       ELSE IF args.optimizer \in {"sgd", "adam", "adamw"}
              THEN optimizer' = "fresh" /\ Goto("check_train")
              ELSE optimizer' = optimizer /\ Raise("RuntimeError: Unsupported optimizer")
  /\ UNCHANGED <<argv, args, files, model, model_ema, caches, ii, build_calls, dataset_train,
                 val_tuples, bound, epoch, best_metric, train_calls,
                 evaluations, written>>

(* lines 340-349: the training-dataset check and the choice of branch *)
CheckTrain ==
  /\ pc = "check_train"
  /\ IF Len(args.combine_datasets) = 0 /\ ~args.eval
       THEN Raise("RuntimeError: no training dataset")
       ELSE IF args.eval THEN Goto("check_val")
       ELSE IF MultitaskMode(args) THEN Goto("train_multitask")
       ELSE Goto("train_plain")
  /\ ii' = 0
  /\ caches' = IF ~args.eval /\ Len(args.combine_datasets) > 0
                   /\ MultitaskMode(args)
                THEN CachesOf(args) ELSE caches
  /\ UNCHANGED <<argv, args, files, model, model_ema, optimizer, build_calls,
                 dataset_train, val_tuples, bound, epoch, best_metric,
                 train_calls, evaluations, written>>

(* lines 350-357: one iteration of the multi-task loop *)
BuildTrainMultitask ==
  /\ pc = "train_multitask"
  /\ ii < Len(args.combine_datasets)
  /\ IF \E f \in OverrideFields : Len(caches[f].items) <= ii
       THEN \* cache[ii] past the end of a list
            /\ Raise("IndexError: list index out of range")
            /\ UNCHANGED <<args, build_calls, ii>>
       ELSE /\ args' = SetPosition(args, caches, ii)
            /\ build_calls' = Append(build_calls,
                 BuildCall(args.combine_datasets[ii + 1], "train", args'))
            /\ ii' = ii + 1
            /\ Goto("train_multitask")
  /\ UNCHANGED <<argv, files, model, model_ema, optimizer, caches, dataset_train,
                 val_tuples, bound, epoch, best_metric, train_calls,
                 evaluations, written>>

(* lines 358-360 and 366-378: concatenate, reset args, make the loader *)
FinishTrainMultitask ==
  /\ pc = "train_multitask"
  /\ ii = Len(args.combine_datasets)
  /\ dataset_train' = [i \in 1..Len(build_calls) |-> build_calls[i].name]
  /\ args' = SetCanonical(args)
  /\ Goto("check_val")
  /\ UNCHANGED <<argv, files, model, model_ema, optimizer, caches, ii, build_calls,
                 val_tuples, bound, epoch, best_metric, train_calls,
                 evaluations, written>>

(* lines 362-378: the plain branch builds every dataset with args as it is *)
BuildTrainPlain ==
  /\ pc = "train_plain"
  /\ build_calls' = [i \in 1..Len(args.combine_datasets) |->
                       BuildCall(args.combine_datasets[i], "train", args)]
  /\ dataset_train' = args.combine_datasets
  /\ Goto("check_val")
  /\ UNCHANGED <<argv, args, files, model, model_ema, optimizer, caches, ii,
                 val_tuples, bound, epoch, best_metric, train_calls,
                 evaluations, written>>

(* lines 380-392: the validation check and the multi-task reset *)
CheckVal ==
  /\ pc = "check_val"
  /\ IF Len(args.combine_datasets_val) = 0
       THEN Raise("RuntimeError: no validation dataset") /\ args' = args
       ELSE IF MultitaskMode(args)
         THEN IF Contains(S_multitask, args.dataset_config)
                THEN args' = SetCanonical(args) /\ Goto("build_val")
                ELSE \* line 388
                     Raise("AssertionError: multitask") /\ args' = args
         ELSE args' = args /\ Goto("build_val")
  /\ UNCHANGED <<argv, files, model, model_ema, optimizer, caches, ii, build_calls,
                 dataset_train, val_tuples, bound, epoch, best_metric,
                 train_calls, evaluations, written>>

(* lines 393-407: one validation entry per name, in order *)
BuildVal ==
  /\ pc = "build_val"
  /\ LET n == Len(val_tuples) + 1
         name == args.combine_datasets_val[n]
     IN /\ build_calls' = Append(build_calls, BuildCall(name, "val", args))
        /\ val_tuples' = Append(val_tuples, name)
        /\ IF n = Len(args.combine_datasets_val)
             THEN Goto("frozen_weights") ELSE Goto("build_val")
  /\ UNCHANGED <<argv, args, files, model, model_ema, optimizer, caches, ii,
                 dataset_train, bound, epoch, best_metric, train_calls,
                 evaluations, written>>

(* ---------------------------------------------------------------------- *)
(* lines 409-452: the three load paths, in program order                   *)
(* ---------------------------------------------------------------------- *)
\* mutant of HasEmaKey: the key is taken to be present in every checkpoint
HasEmaKey_Always(c) == TRUE

\* "model_ema" in checkpoint
HasEmaKey(c) == c.model_ema # "absent"

(* lines 409-420: --frozen_weights reads the file named by --resume *)
LoadFrozen ==
  /\ pc = "frozen_weights"
  /\ IF ~args.frozen_weights
       THEN Goto("load") /\ UNCHANGED <<model, model_ema>>
       ELSE IF ~args.resume
         THEN \* torch.load("")
              Raise("FileNotFoundError: resume") /\ UNCHANGED <<model, model_ema>>
         ELSE /\ model' = [model EXCEPT !.detr =
                             IF files.resume.model_ema = "weights"
                               THEN "resume.model_ema" ELSE "resume.model"]
              /\ model_ema' = IF args.ema THEN model' ELSE model_ema
              /\ Goto("load")
  /\ UNCHANGED <<argv, args, files, optimizer, caches, ii, build_calls,
                 dataset_train, val_tuples, bound, epoch, best_metric,
                 train_calls, evaluations, written>>

(* lines 424-435: --load *)
LoadFresh ==
  /\ pc = "load"
  /\ IF ~args.load
       THEN Goto("resume") /\ UNCHANGED <<model, model_ema>>
       ELSE IF files.load.model_ema = "none"
         THEN \* load_state_dict(None, strict=False)
              Raise("TypeError: load_state_dict(None)")
              /\ UNCHANGED <<model, model_ema>>
         ELSE /\ model' = IF HasEmaKey(files.load)
                            THEN Weights("load.model_ema")
                            ELSE Weights("load.model")
              /\ model_ema' = IF args.ema THEN model' ELSE model_ema
              /\ Goto("resume")
  /\ UNCHANGED <<argv, args, files, optimizer, caches, ii, build_calls,
                 dataset_train, val_tuples, bound, epoch, best_metric,
                 train_calls, evaluations, written>>

\* mutant of RestoresTraining: the evaluation-only test is dropped
RestoresTraining_NoEvalTest(a, c) == c.has_optimizer /\ c.has_epoch

\* line 444: the condition under which optimizer and epoch are restored
RestoresTraining(a, c) == ~a.eval /\ c.has_optimizer /\ c.has_epoch

(* lines 438-452: --resume *)
Resume ==
  /\ pc = "resume"
  /\ IF ~args.resume
       THEN Goto("dispatch") /\ UNCHANGED <<model, model_ema, optimizer, args>>
       ELSE /\ model' = Weights("resume.model")
            /\ IF RestoresTraining(args, files.resume)
                 THEN /\ optimizer' = "resume.optimizer"
                      /\ args' = [args EXCEPT !.start_epoch = files.resume.epoch + 1]
                 ELSE UNCHANGED <<optimizer, args>>
            /\ IF ~args.ema
                 THEN model_ema' = model_ema /\ Goto("dispatch")
                 ELSE IF ~HasEmaKey(files.resume)
                   THEN model_ema' = model' /\ Goto("dispatch")
                   ELSE IF files.resume.model_ema = "none"
                     THEN \* model_ema.load_state_dict(None)
                          /\ model_ema' = model_ema
                          /\ Raise("TypeError: load_state_dict(None)")
                     ELSE /\ model_ema' = Weights("resume.model_ema")
                          /\ Goto("dispatch")
  /\ UNCHANGED <<argv, files, caches, ii, build_calls, dataset_train, val_tuples,
                 bound, epoch, best_metric, train_calls, evaluations, written>>

(* ---------------------------------------------------------------------- *)
(* lines 454-481: build_evaluator_list                                     *)
(* ---------------------------------------------------------------------- *)
Evaluator(kind, merge_boxes) == [kind |-> kind, merge_boxes |-> merge_boxes]

\* mutant of build_evaluator_list: no early return when detection is disabled
build_evaluator_list_NoReturn(a, dataset_name, do_caption) ==
  LET merge == PyEq(a.GT_type, "merged")
  IN (IF Contains(S_flickr, dataset_name) /\ do_caption
        THEN <<Evaluator("FlickrCaptionEvaluator", merge)>> ELSE <<>>)
     \o <<Evaluator("CocoEvaluator", FALSE)>>
     \o (IF Contains(S_refexp, dataset_name)
           THEN <<Evaluator("RefExpEvaluator", FALSE)>> ELSE <<>>)
     \o (IF Contains(S_flickr, dataset_name)
           THEN <<Evaluator("FlickrEvaluator", merge)>> ELSE <<>>)

build_evaluator_list(a, dataset_name, do_caption) ==
  LET merge == PyEq(a.GT_type, "merged")
      caption == IF Contains(S_flickr, dataset_name) /\ do_caption
                   THEN <<Evaluator("FlickrCaptionEvaluator", merge)>>
                   ELSE <<>>
  IN IF a.no_detection
       THEN caption
       ELSE caption
            \o <<Evaluator("CocoEvaluator", FALSE)>>
            \o (IF Contains(S_refexp, dataset_name)
                  THEN <<Evaluator("RefExpEvaluator", FALSE)>> ELSE <<>>)
            \o (IF Contains(S_flickr, dataset_name)
                  THEN <<Evaluator("FlickrEvaluator", merge)>> ELSE <<>>)

\* mutant of TestModel: the live model is evaluated even when a shadow exists
TestModel_Live == "model"

\* lines 487 / 578: the model handed to evaluate
TestModel == IF model_ema # None THEN "model_ema" ELSE "model"

\* one evaluate call (lines 489-502)
EvaluateCall(dataset_name) ==
  [dataset_name |-> dataset_name,
   model |-> TestModel,
   weights |-> IF model_ema # None THEN model_ema ELSE model,
   args |-> BuildCall(dataset_name, "eval", args),
   evaluator_list |-> build_evaluator_list(args, dataset_name, args.do_caption)]

\* the keys of curr_test_stats that main() looks for (line 613): evaluate
\* reports "coco_eval_bbox" when the list holds a CocoEvaluator
StatKeys(evaluator_list) ==
  IF \E i \in DOMAIN evaluator_list : evaluator_list[i].kind = "CocoEvaluator"
    THEN {"coco_eval_bbox"} ELSE {}

\* lines 502 / 593: item.dataset_name + "_" + k
PrefixedKey(dataset_name, k) == dataset_name \o <<"_">> \o <<k>>

\* lines 486 and 502: test_stats after the first n evaluations, each key
\* mapped to the evaluation its value came from; dict.update replaces the
\* value of a key that is already there
RECURSIVE TestStatsAfter(_)
TestStatsAfter(n) ==
  IF n = 0 THEN <<>>
  ELSE LET d == TestStatsAfter(n - 1)
           e == evaluations[n]
           new == { PrefixedKey(e.dataset_name, k) : k \in StatKeys(e.evaluator_list) }
       IN [key \in (DOMAIN d) \cup new |-> IF key \in new THEN n ELSE d[key]]

test_stats == TestStatsAfter(Len(evaluations))

\* mutant of EvalOnlyMode: the evaluation-only branch is never taken
EvalOnlyMode_Never(a) == FALSE

\* line 485: if args.eval
EvalOnlyMode(a) == a.eval

(* line 485: evaluation-only run or training run *)
Dispatch ==
  /\ pc = "dispatch"
  /\ IF EvalOnlyMode(args) THEN Goto("eval_only") ELSE Goto("init_engines")
  /\ UNCHANGED <<argv, args, files, model, model_ema, optimizer, caches, ii,
                 build_calls, dataset_train, val_tuples, bound, epoch,
                 best_metric, train_calls, evaluations, written>>

(* lines 488-503: one validation entry of the evaluation-only loop *)
EvalOnlyEntry ==
  /\ pc = "eval_only"
  /\ Len(evaluations) < Len(val_tuples)
  /\ evaluations' = Append(evaluations,
                           EvaluateCall(val_tuples[Len(evaluations) + 1]))
  /\ Goto("eval_only")
  /\ UNCHANGED <<argv, args, files, model, model_ema, optimizer, caches, ii,
                 build_calls, dataset_train, val_tuples, bound, epoch,
                 best_metric, train_calls, written>>

(* lines 505-510: print the statistics and return *)
EvalOnlyReturn ==
  /\ pc = "eval_only"
  /\ Len(evaluations) = Len(val_tuples)
  /\ Goto("done")
  /\ UNCHANGED <<argv, args, files, model, model_ema, optimizer, caches, ii,
                 build_calls, dataset_train, val_tuples, bound, epoch,
                 best_metric, train_calls, evaluations, written>>

(* ---------------------------------------------------------------------- *)
(* lines 512-635: the training run                                         *)
(* ---------------------------------------------------------------------- *)
(* lines 512-537: engines, best_metric = 0.0, first value of the range *)
InitEngines ==
  /\ pc = "init_engines"
  /\ bound' = bound \cup {"best_metric"} \cup
              (IF args.from_deepspeed THEN {"deepspeed_engine"} ELSE {})
  /\ best_metric' = 0
  /\ epoch' = args.start_epoch
  /\ Goto("epoch_head")
  /\ UNCHANGED <<argv, args, files, model, model_ema, optimizer, caches, ii,
                 build_calls, dataset_train, val_tuples, train_calls,
                 evaluations, written>>

(* line 538: for epoch in range(args.start_epoch, args.epochs) *)
EpochHead ==
  /\ pc = "epoch_head"
  /\ IF epoch < args.epochs THEN Goto("train") ELSE Goto("finish")
  /\ UNCHANGED <<argv, args, files, model, model_ema, optimizer, caches, ii,
                 build_calls, dataset_train, val_tuples, bound, epoch,
                 best_metric, train_calls, evaluations, written>>

(* lines 539-555: the training pass, made only when args.distributed *)
Train ==
  /\ pc = "train"
  /\ IF ~args.distributed
       THEN /\ Goto("log_loss")
            /\ UNCHANGED <<model, model_ema, optimizer, bound, train_calls>>
       ELSE IF "deepspeed_engine" \notin bound
         THEN \* line 554 reads a local that line 525 never assigned
              /\ Raise("UnboundLocalError: deepspeed_engine")
              /\ UNCHANGED <<model, model_ema, optimizer, bound, train_calls>>
         ELSE /\ train_calls' = Append(train_calls, epoch)
              /\ model' = Weights("trained")
              /\ model_ema' = IF model_ema # None
                                THEN Weights("ema_trained") ELSE model_ema
              /\ optimizer' = "stepped"
              /\ bound' = bound \cup {"train_stats"}
              /\ Goto("log_loss")
  /\ UNCHANGED <<argv, args, files, caches, ii, build_calls, dataset_train,
                 val_tuples, epoch, best_metric, evaluations, written>>

(* line 557: the f-string reads the name loss, which nothing defines *)
LogLoss ==
  /\ pc = "log_loss"
  /\ Raise("NameError: loss")
  /\ UNCHANGED <<argv, args, files, model, model_ema, optimizer, caches, ii,
                 build_calls, dataset_train, val_tuples, bound, epoch,
                 best_metric, train_calls, evaluations, written>>

(* lines 632-635: the loop is exhausted *)
Finish ==
  /\ pc = "finish"
  /\ Goto("done")
  /\ UNCHANGED <<argv, args, files, model, model_ema, optimizer, caches, ii,
                 build_calls, dataset_train, val_tuples, bound, epoch,
                 best_metric, train_calls, evaluations, written>>

Next ==
  \/ BuildModel \/ BuildOptimizer \/ CheckTrain
  \/ BuildTrainMultitask \/ FinishTrainMultitask \/ BuildTrainPlain
  \/ CheckVal \/ BuildVal
  \/ LoadFrozen \/ LoadFresh \/ Resume
  \/ Dispatch \/ EvalOnlyEntry \/ EvalOnlyReturn
  \/ InitEngines \/ EpochHead \/ Train \/ LogLoss \/ Finish

Spec == Init /\ [][Next]_vars

(* ====================================================================== *)
(* Properties                                                              *)
(* ====================================================================== *)
OverridesOf(a) == [f \in OverrideFields |-> a[f]]
TrainBuilds == SelectSeq(build_calls, LAMBDA b : b.image_set = "train")
Names(q) == [i \in 1..Len(q) |-> q[i].dataset_name]
Kinds(q) == [i \in 1..Len(q) |-> q[i].kind]
\* main() is past the three load paths and has not failed
AfterLoading == pc \in {"dispatch", "eval_only", "init_engines"}

(* C1: a checkpoint carrying both optimizer and epoch, loaded through the  *)
(* resume path: with evaluation-only off the optimizer state is the        *)
(* checkpoint's and the start epoch is checkpoint.epoch + 1; with          *)
(* evaluation-only on, optimizer state and start epoch are what they were  *)
(* before the resume (the fresh optimizer, the start epoch of the command  *)
(* line).                                                                  *)
C1_ResumeRestoresIffTraining ==
  (AfterLoading /\ argv.resume
     /\ files.resume.has_optimizer /\ files.resume.has_epoch)
  => IF ~argv.eval
       THEN /\ optimizer = "resume.optimizer"
            /\ args.start_epoch = files.resume.epoch + 1
       ELSE /\ optimizer = "fresh"
            /\ args.start_epoch = argv.start_epoch

C1_Witness ==
  /\ pc = "init_engines" /\ argv.resume /\ ~argv.eval
  /\ files.resume.has_optimizer /\ files.resume.has_epoch
  /\ files.resume.epoch = 1 /\ argv.start_epoch = 0
  /\ optimizer = "resume.optimizer" /\ args.start_epoch = 2

(* C7: an evaluation-only run makes no training pass, writes no file and   *)
(* never enters the epoch loop; when it returns it has evaluated every     *)
(* validation entry exactly once, in the configured order; until then the  *)
(* evaluations made are a prefix of that order.                            *)
C7_EvalOnlyEvaluatesAndStops ==
  argv.eval =>
    /\ train_calls = <<>>
    /\ written = <<>>
    /\ "best_metric" \notin bound
    /\ pc \notin {"init_engines", "epoch_head", "train", "log_loss", "finish"}
    /\ Len(evaluations) <= Len(argv.combine_datasets_val)
    /\ Names(evaluations) = SubSeq(argv.combine_datasets_val, 1, Len(evaluations))
    /\ (pc = "done" => Names(evaluations) = argv.combine_datasets_val)

C7_Witness ==
  /\ argv.eval /\ pc = "done"
  /\ Len(evaluations) = 2
  /\ evaluations[1].dataset_name # evaluations[2].dataset_name

(* C8: the evaluator list of every evaluation is [captioning] if the name  *)
(* contains "flickr" and captioning is on, followed, only when detection   *)
(* is not disabled, by [detection], [referring-expression] if the name     *)
(* contains "refexp", [flickr grounding] if the name contains "flickr";    *)
(* "flickr_test" with captioning on gives [captioning] with detection off  *)
(* and [captioning, detection, flickr grounding] with detection on.        *)
C8_Expected(name, caption, detection) ==
  (IF Contains(S_flickr, name) /\ caption
     THEN <<"FlickrCaptionEvaluator">> ELSE <<>>)
  \o (IF detection
        THEN <<"CocoEvaluator">>
             \o (IF Contains(S_refexp, name) THEN <<"RefExpEvaluator">> ELSE <<>>)
             \o (IF Contains(S_flickr, name) THEN <<"FlickrEvaluator">> ELSE <<>>)
        ELSE <<>>)

C8_EvaluatorComposition ==
  \A i \in DOMAIN evaluations :
    LET e == evaluations[i] IN
      /\ Kinds(e.evaluator_list)
           = C8_Expected(e.dataset_name, argv.do_caption, ~argv.no_detection)
      /\ (e.dataset_name = S_flickr_test /\ argv.do_caption) =>
           Kinds(e.evaluator_list)
             = IF argv.no_detection
                 THEN <<"FlickrCaptionEvaluator">>
                 ELSE <<"FlickrCaptionEvaluator", "CocoEvaluator", "FlickrEvaluator">>

C8_Witness ==
  \E i, j \in DOMAIN evaluations :
    /\ evaluations[i].dataset_name = S_flickr_test
    /\ argv.do_caption /\ ~argv.no_detection
    /\ Len(evaluations[i].evaluator_list) = 3
    /\ evaluations[j].dataset_name = S_flickr_refexp
    /\ Len(evaluations[j].evaluator_list) = 4

(* C9: when the override fields of the command line are scalars, the       *)
(* override fields of args equal their command-line values in every state, *)
(* in particular after the training and validation datasets are built.     *)
ScalarOverridesGiven == \A f \in OverrideFields : ~IsList(argv[f])

C9_ScalarOverridesUnchanged ==
  ScalarOverridesGiven => OverridesOf(args) = OverridesOf(argv)

C9_Witness ==
  /\ ScalarOverridesGiven /\ ~argv.eval /\ pc = "frozen_weights"
  /\ Len(dataset_train) = 2 /\ Len(val_tuples) = 1
  /\ OverridesOf(args) = OverridesOf(argv)

(* C10: when the override fields are lists of length k, k the number of    *)
(* training datasets, training-dataset assembly makes exactly k builds in  *)
(* list order, and the build at position i sees element i of each field's  *)
(* own list, as a scalar.                                                  *)
ListOverridesGiven ==
  /\ ~argv.eval
  /\ \A f \in OverrideFields :
       IsList(argv[f]) /\ Len(argv[f].items) = Len(argv.combine_datasets)

TrainAssemblyDone ==
  pc \notin {"build_model", "build_optimizer", "check_train",
             "train_multitask", "train_plain", "raised"}

C10_BuildsSeeOwnOverrides ==
  ListOverridesGiven =>
    /\ Len(TrainBuilds) <= Len(argv.combine_datasets)
    /\ \A i \in DOMAIN TrainBuilds :
         /\ TrainBuilds[i].name = argv.combine_datasets[i]
         /\ \A f \in OverrideFields :
              TrainBuilds[i][f] = Str(argv[f].items[i])
    /\ (TrainAssemblyDone => Len(TrainBuilds) = Len(argv.combine_datasets))

C10_Witness ==
  /\ ListOverridesGiven /\ pc = "check_val"
  /\ Len(TrainBuilds) = 2
  /\ \A f \in OverrideFields : TrainBuilds[1][f] # TrainBuilds[2][f]

(* C11: in a training run whose refexp_dataset_name is a list, once the    *)
(* training-dataset assembly has returned the four override fields of args *)
(* hold the fixed joint value, whatever the lists held and whatever the    *)
(* last dataset was built with, and keep it for the rest of the run.       *)
C11_CanonicalAfterAssembly ==
  (MultitaskMode(argv) /\ ~argv.eval /\ TrainAssemblyDone)
  => OverridesOf(args) = ScalarOverrides(Canonical)

C11_Witness ==
  /\ MultitaskMode(argv) /\ ~argv.eval /\ pc = "check_val"
  /\ Len(TrainBuilds) = 2
  /\ \A f \in OverrideFields :
       /\ TrainBuilds[2][f] # Str(Canonical[f])
       /\ args[f] = Str(Canonical[f])

(* C12: the resume step of a run with EMA enabled, on a checkpoint that    *)
(* has no model_ema key, does not raise: it goes on to the dispatch, the   *)
(* live model holds the weights of the checkpoint's model key and the      *)
(* shadow holds the same weights.                                          *)
ResumeWithoutEmaKey ==
  pc = "resume" /\ args.resume /\ args.ema /\ files.resume.model_ema = "absent"

C12_ResumeWithoutEmaKey ==
  [][ResumeWithoutEmaKey =>
       /\ pc' = "dispatch" /\ error' = ""
       /\ model' = Weights("resume.model")
       /\ model_ema' = model']_vars

C12_Witness ==
  /\ pc = "dispatch" /\ argv.resume /\ argv.ema
  /\ files.resume.model_ema = "absent"
  /\ model = Weights("resume.model") /\ model_ema = model

(* C13: every evaluation runs on the EMA shadow, with the shadow's         *)
(* weights, when a shadow exists, and on the live model with the live      *)
(* weights otherwise; an evaluation-only run with EMA disabled that        *)
(* resumes a checkpoint without model_ema evaluates the live model, which  *)
(* holds the weights of the checkpoint's model key.                        *)
C13_EvaluatesShadowIfAny ==
  \A i \in DOMAIN evaluations :
    LET e == evaluations[i] IN
      /\ model_ema # None => (e.model = "model_ema" /\ e.weights = model_ema)
      /\ model_ema = None => (e.model = "model" /\ e.weights = model)
      /\ (argv.eval /\ ~argv.ema /\ argv.resume
            /\ files.resume.model_ema = "absent")
           => (e.model = "model" /\ e.weights = Weights("resume.model"))

C13_Witness ==
  /\ argv.eval /\ ~argv.ema /\ argv.resume /\ files.resume.model_ema = "absent"
  /\ pc = "done" /\ Len(evaluations) = 1
  /\ evaluations[1].model = "model"
  /\ evaluations[1].weights = Weights("resume.model")

(* C14: when main() ends with one of the fatal configuration errors (no    *)
(* training dataset outside evaluation-only mode, no validation dataset,   *)
(* unsupported optimizer) the model has not been built, no dataset has     *)
(* been built, no checkpoint has been loaded and no file has been written. *)
FatalConfigErrors ==
  {"RuntimeError: no training dataset", "RuntimeError: no validation dataset",
   "RuntimeError: Unsupported optimizer"}

C14_FatalErrorsBeforeAllocation ==
  (pc = "raised" /\ error \in FatalConfigErrors) =>
    /\ model = Unbuilt /\ model_ema = None
    /\ build_calls = <<>>
    /\ written = <<>>

(* ---------------------------------------------------------------------- *)
(* The epoch loop                                                          *)
(* ---------------------------------------------------------------------- *)
\* the run has executed line 537 and is in, or past, the epoch loop
EnteredLoop == "best_metric" \in bound
\* the loop body of the current epoch was entered and main() has ended in it
EpochAborted == EnteredLoop /\ pc = "raised"
\* line 576 / 609: epoch % args.eval_skip == 0
IsEvalEpoch(e) == e % args.eval_skip = 0
BestWrites(e) ==
  { i \in DOMAIN written :
      written[i].path = "BEST_checkpoint.pth" /\ written[i].epoch = e }
\* lines 560-563: the rolling and the epoch-numbered checkpoint of epoch e
RollingWrites(e) ==
  { i \in DOMAIN written :
      written[i].path = "checkpoint.pth" /\ written[i].epoch = e }
ArchivalWrites(e) ==
  { i \in DOMAIN written :
      written[i].path = "checkpoint{epoch:04}.pth" /\ written[i].epoch = e }
\* line 562
IsArchivalEpoch(e) == (e + 1) % args.lr_drop = 0 \/ (e + 1) % 2 = 0
\* range(args.start_epoch, args.epochs) as a sequence
EpochRange ==
  IF args.epochs > args.start_epoch
    THEN [i \in 1..(args.epochs - args.start_epoch) |-> args.start_epoch + i - 1]
    ELSE <<>>

(* C2: once an epoch is over, a best-checkpoint write has occurred on it   *)
(* if and only if it is an evaluation epoch and its selection metric       *)
(* strictly exceeds the running best held before the epoch.  Stated for    *)
(* the runs whose evaluations yield the metric MaxMetric: the loop never   *)
(* calls evaluate, so every run of the loop is such a run.                 *)
C2_BestWriteIffImproved ==
  EpochAborted =>
    ((BestWrites(epoch) # {}) <=> (IsEvalEpoch(epoch) /\ MaxMetric > best_metric))

(* C5: a training run that enters the epoch loop never ends in an          *)
(* exception, and when it returns it has made the training pass of every   *)
(* epoch of range(start_epoch, epochs), in increasing order.               *)
C5_LoopRunsToCompletion ==
  EnteredLoop =>
    /\ pc # "raised"
    /\ (pc = "done" => train_calls = EpochRange)

(* C6: when an epoch reaches its logging step (and so before its           *)
(* checkpoint and evaluation steps) exactly one training pass has been     *)
(* made for it and its training statistics exist, on every backend.        *)
C6_TrainPassBeforeLogging ==
  pc = "log_loss" =>
    /\ Len(SelectSeq(train_calls, LAMBDA e : e = epoch)) = 1
    /\ "train_stats" \in bound

(* C15: once an epoch is over, with an output directory set the rolling    *)
(* checkpoint of that epoch has been written and its epoch-numbered        *)
(* checkpoint has been written if and only if (epoch+1) mod lr_drop = 0 or *)
(* (epoch+1) mod 2 = 0; with no output directory neither has been written. *)
C15_CheckpointCadence ==
  EpochAborted =>
    IF args.output_dir
      THEN /\ RollingWrites(epoch) # {}
           /\ (ArchivalWrites(epoch) # {}) <=> IsArchivalEpoch(epoch)
      ELSE RollingWrites(epoch) = {} /\ ArchivalWrites(epoch) = {}

(* C16: once an epoch of a training run is over, the evaluations made on   *)
(* it are one per validation entry, in the configured order, if            *)
(* epoch mod eval_skip = 0, and none otherwise.  A training run evaluates  *)
(* nowhere but in its epochs, and the epoch that is over is the first one  *)
(* the loop has entered, so the evaluations of the epoch are all the       *)
(* evaluations of the run.                                                 *)
C16_EvaluationCadence ==
  EpochAborted =>
    Names(evaluations) = IF IsEvalEpoch(epoch) THEN val_tuples ELSE <<>>

(* C17: when --frozen_weights is the load mode of the run (no --load),     *)
(* then after the loading blocks only the detr sub-module holds loaded     *)
(* weights, the optimizer is the fresh one and the start epoch is the one  *)
(* of the command line.                                                    *)
C17_FrozenLoadFrame ==
  (argv.frozen_weights /\ ~argv.load /\ AfterLoading) =>
    /\ model.detr \in {"resume.model_ema", "resume.model"}
    /\ model.rest = "init"
    /\ optimizer = "fresh"
    /\ args.start_epoch = argv.start_epoch

(* ---------------------------------------------------------------------- *)
(* The load paths                                                          *)
(* ---------------------------------------------------------------------- *)
\* the loading blocks are over: passed, or ended by a load_state_dict(None)
LoadingOver ==
  AfterLoading \/ (pc = "raised" /\ error = "TypeError: load_state_dict(None)")
\* the checkpoint holds EMA weights
HasEmaWeights(c) == c.model_ema = "weights"

(* C18: when --load is the only load path of the run, then once loading is *)
(* over the live model holds the checkpoint's EMA weights if the           *)
(* checkpoint has EMA weights and the weights of its model key otherwise,  *)
(* the optimizer is the fresh one and the start epoch is the one of the    *)
(* command line, whether or not the checkpoint has optimizer and epoch.    *)
C18_FreshLoadFrame ==
  (argv.load /\ ~argv.resume /\ ~argv.frozen_weights /\ LoadingOver) =>
    /\ model = IF HasEmaWeights(files.load)
                 THEN Weights("load.model_ema") ELSE Weights("load.model")
    /\ optimizer = "fresh"
    /\ args.start_epoch = argv.start_epoch

(* C19: with EMA enabled, each load path leaves the shadow holding the     *)
(* checkpoint's EMA weights when the checkpoint has EMA weights; when it   *)
(* has none (model_ema missing, or present and None) the path does not     *)
(* raise and the shadow equals the live model just loaded.                 *)
C19_EmaInEveryLoadPath ==
  argv.ema =>
    \* frozen-weights: the state between lines 420 and 424
    /\ (argv.frozen_weights /\ argv.resume /\ pc = "load") =>
         /\ model_ema = model
         /\ HasEmaWeights(files.resume) => model_ema.detr = "resume.model_ema"
    \* fresh load alone
    /\ (argv.load /\ ~argv.resume /\ ~argv.frozen_weights /\ LoadingOver) =>
         /\ pc # "raised"
         /\ model_ema = model
         /\ HasEmaWeights(files.load) => model_ema = Weights("load.model_ema")
    \* resume alone
    /\ (argv.resume /\ ~argv.load /\ ~argv.frozen_weights /\ LoadingOver) =>
         /\ pc # "raised"
         /\ IF HasEmaWeights(files.resume)
              THEN model_ema = Weights("resume.model_ema")
              ELSE model_ema = model

(* C20: from the construction of the model on, a shadow exists if and only *)
(* if EMA is enabled on the command line: after construction, after every  *)
(* combination of the load paths, in the epoch loop and when main() ends.  *)
C20_ShadowIffEma ==
  pc # "build_model" => ((model_ema # None) <=> argv.ema)

C20_Witness ==
  /\ argv.ema /\ argv.resume /\ pc = "log_loss"
  /\ train_calls # <<>>
  /\ model_ema = Weights("ema_trained")

(* ---------------------------------------------------------------------- *)
(* Resumed runs and the selection of the best checkpoint                   *)
(* ---------------------------------------------------------------------- *)
(* C22: in a training run resumed from a checkpoint, the running best      *)
(* metric with which the loop starts is the best value the interrupted run *)
(* had recorded.  Stated for the resumption of a run that had recorded     *)
(* MaxMetric: main() reads nothing of the interrupted run but the          *)
(* checkpoint, and lines 565-571 put no best metric into a checkpoint, so  *)
(* every resumed run is the resumption of such a run.                      *)
C22_BestMetricRestored ==
  (argv.resume /\ RestoresTraining(argv, files.resume) /\ EnteredLoop)
  => best_metric = MaxMetric

(* C23: on an evaluation epoch of a run in which no evaluator yields a key *)
(* of the selection metric (detection disabled, captioning off) no error   *)
(* is raised, the running best metric keeps its value and no best          *)
(* checkpoint is written.                                                  *)
NoSelectionKey == args.no_detection /\ ~args.do_caption

C23_NoKeyIsNoImprovement ==
  (EnteredLoop /\ NoSelectionKey /\ epoch < args.epochs /\ IsEvalEpoch(epoch))
  => /\ pc # "raised"
     /\ best_metric = 0
     /\ BestWrites(epoch) = {}

(* C24: every statistic of every evaluation made so far is in the          *)
(* aggregate under its dataset's name as prefix, with the value that       *)
(* evaluation produced: no later evaluation has replaced it (a run in      *)
(* which two entries produce the same key would have ended with an         *)
(* assertion before the second value was stored).                          *)
C24_NoStatisticOverwritten ==
  \A i \in DOMAIN evaluations :
    \A k \in StatKeys(evaluations[i].evaluator_list) :
      LET key == PrefixedKey(evaluations[i].dataset_name, k) IN
        /\ key \in DOMAIN test_stats
        /\ test_stats[key] = i

(* C25: in a run whose refexp_dataset_name is a list, training or          *)
(* evaluation-only, every validation-dataset build, every evaluator        *)
(* construction and evaluation pass, and every training pass reads args    *)
(* with the four override fields holding the scalar joint values.          *)
ValBuilds == SelectSeq(build_calls, LAMBDA b : b.image_set = "val")
HoldsCanonical(o) == \A f \in OverrideFields : o[f] = Str(Canonical[f])

C25_OverridesNeverLeak ==
  MultitaskMode(argv) =>
    /\ \A i \in DOMAIN ValBuilds : HoldsCanonical(ValBuilds[i])
    /\ \A i \in DOMAIN evaluations : HoldsCanonical(evaluations[i].args)
    /\ pc \in {"train", "log_loss"} => HoldsCanonical(args)

C25_Witness ==
  /\ MultitaskMode(argv) /\ argv.eval /\ pc = "done"
  /\ \A f \in OverrideFields : argv[f].items # <<>> /\ argv[f].items[1] # Canonical[f]
  /\ Len(ValBuilds) = 2 /\ Len(evaluations) = 2
  /\ HoldsCanonical(evaluations[2].args)

====
